---- MODULE Spec2Model ----
(***************************************************************************)
(* Model of the Janus Oracle C shim (protocol/c_shim/oracle_c_api.cc),     *)
(* gRPC build (HAVE_JANUS_ORACLE_GRPC_STUBS): one server handle, one       *)
(* client handle, the detached serve threads and the four RPCs.            *)
(*                                                                         *)
(* Pointers to text are strings; the null pointer is Null.  A pointer to   *)
(* an object is a number, 0 being nullptr.                                 *)
(***************************************************************************)
EXTENDS Integers, Sequences, FiniteSets, TLC

VARIABLES
    server,     \* the JanusOracleServer object (live = FALSE: none allocated)
    endpoints,  \* grpc::Server objects ever built: "serving" or "freed"
    threads,    \* detached serve threads: [srv |-> endpoint, pc |-> ...]
    client,     \* the JanusOracleClient object (live = FALSE: none allocated)
    heap,       \* the blocks of the client calls the caller holds, by address
    caller,     \* the caller of the client calls: how it uses their outputs
    last        \* the last API operation: arguments, return code, outputs

vars == <<server, endpoints, threads, client, heap, caller, last>>

----------------------------------------------------------------------------
(* Bounds                                                                  *)

\* number of grpc::Server objects BuildAndStart may build in one behaviour
MaxStarts == 2

\* number of locations a references handler streams to the sink
MaxLocs == 2

\* number of addresses the blocks a caller holds are drawn from
MaxAddrs == 4

----------------------------------------------------------------------------
(* Values                                                                  *)

Null == "NULL"

Kinds == {"doc_update", "hover_at", "definition_at", "references_at"}

\* handler tables a caller registers: per kind, a function pointer or NULL
NoHandlers == [k \in Kinds |-> FALSE]
HandlerTables ==
    { NoHandlers,
      [k \in Kinds |-> TRUE],
      [k \in Kinds |-> k \in {"doc_update", "definition_at"}],
      [k \in Kinds |-> k \in {"hover_at", "references_at"}] }

\* opaque user context pointers (0 = nullptr)
Users == {0, 1}

----------------------------------------------------------------------------
(* Server handle                                                           *)

\* struct JanusOracleServer after value-initialisation; started and phase
\* are history of the handle: a start returned 0 with no stop since, and
\* the outcome of the last start/stop.
NoServer ==
    [live |-> FALSE, server |-> 0, handlers |-> NoHandlers, user |-> 0,
     started |-> FALSE, phase |-> "none"]

NewServer ==
    [live |-> TRUE, server |-> 0, handlers |-> NoHandlers, user |-> 0,
     started |-> FALSE, phase |-> "created"]

\* the handles a caller can pass: NULL, or the live object
ServerHandles == {FALSE} \cup (IF server.live THEN {TRUE} ELSE {})

\* ~grpc::Server / Shutdown + reset of the unique_ptr: the object is gone
ReleaseEndpoint(eps, id) ==
    IF id = 0 THEN eps ELSE [eps EXCEPT ![id] = "freed"]

\* record of a server API call: the handle passed (h = FALSE: NULL), the
\* return code, whether BuildAndStart built a server, how many threads the
\* call launched, whether an exception was caught, and the handle and
\* endpoints as they were before the call
LifeRec(op, h, rc, bound, launched) ==
    [op |-> op, h |-> h, rc |-> rc, bound |-> bound, launched |-> launched,
     exc |-> FALSE, pre |-> server, eps |-> endpoints]

\* janus_oracle_server_create
ServerCreate ==
    /\ ~server.live
    /\ \E ok \in BOOLEAN :
          /\ server' = IF ok THEN NewServer ELSE server
          /\ last' = LifeRec("server_create", ok, IF ok THEN 0 ELSE 1, FALSE, 0)
    /\ UNCHANGED <<endpoints, threads, client, heap, caller>>

\* janus_oracle_server_set_handlers
ServerSetHandlers ==
    \E h \in ServerHandles, tbl \in HandlerTables, u \in Users :
       /\ IF ~h
          THEN /\ server' = server
               /\ last' = LifeRec("server_set_handlers", h, 1, FALSE, 0)
          ELSE /\ server' = [server EXCEPT !.handlers = tbl, !.user = u]
               /\ last' = LifeRec("server_set_handlers", h, 0, FALSE, 0)
       /\ UNCHANGED <<endpoints, threads, client, heap, caller>>

\* what the statements of janus_oracle_server_start's try block can do:
\*   "setup_exc"  an exception before server->server is assigned
\*   "no_server"  BuildAndStart returned nullptr
\*   "thread_exc" BuildAndStart returned a server, std::thread threw
\*   "ok"         BuildAndStart returned a server, the thread was launched
StartOutcomes == {"setup_exc", "no_server", "thread_exc", "ok"}

StartBuilds(o) == o \in {"thread_exc", "ok"}

StartLaunches(o) == o = "ok"

StartThrows(o) == o \in {"setup_exc", "thread_exc"}

\* StartStatus with the failure of std::thread taken for success
StartStatus_ThreadFailureOk(o) ==
    CASE o = "no_server" -> 2
      [] o = "setup_exc" -> 3
      [] OTHER -> 0

StartStatus(o) ==
    CASE o = "no_server" -> 2
      [] o \in {"setup_exc", "thread_exc"} -> 3
      [] OTHER -> 0

\* janus_oracle_server_start
ServerStart ==
    \E h \in ServerHandles :
       IF ~h
       THEN /\ last' = LifeRec("server_start", h, 1, FALSE, 0)
            /\ UNCHANGED <<server, endpoints, threads, client, heap, caller>>
       ELSE \E o \in StartOutcomes :
              LET id == Len(endpoints) + 1
                  rc == StartStatus(o)
              IN /\ StartBuilds(o) => Len(endpoints) < MaxStarts
                 /\ endpoints' =
                      IF o = "setup_exc" THEN endpoints
                      ELSE IF StartBuilds(o)
                           THEN Append(ReleaseEndpoint(endpoints, server.server),
                                       "serving")
                           ELSE ReleaseEndpoint(endpoints, server.server)
                 /\ server' =
                      [server EXCEPT
                         !.server = IF o = "setup_exc" THEN @
                                    ELSE IF StartBuilds(o) THEN id ELSE 0,
                         !.started = IF rc = 0 THEN TRUE ELSE @,
                         !.phase = IF rc = 0 THEN "running" ELSE "start_failed"]
                 /\ threads' =
                      IF StartLaunches(o)
                      THEN Append(threads, [srv |-> id, pc |-> "launched", uaf |-> "none"])
                      ELSE threads
                 /\ last' = [LifeRec("server_start", h, rc, StartBuilds(o),
                                     Len(threads') - Len(threads))
                             EXCEPT !.exc = StartThrows(o)]
                 /\ UNCHANGED <<client, heap, caller>>

\* the body of janus_oracle_server_stop on a non-null handle
StopEffect(s) == [s EXCEPT !.server = 0, !.started = FALSE, !.phase = "stopped"]

\* janus_oracle_server_stop
ServerStop ==
    \E h \in ServerHandles :
       /\ IF ~h
          THEN /\ last' = LifeRec("server_stop", h, 1, FALSE, 0)
               /\ UNCHANGED <<server, endpoints>>
          ELSE /\ endpoints' = ReleaseEndpoint(endpoints, server.server)
               /\ server' = StopEffect(server)
               /\ last' = LifeRec("server_stop", h, 0, FALSE, 0)
       /\ UNCHANGED <<threads, client, heap, caller>>

\* janus_oracle_server_destroy
ServerDestroy ==
    \E h \in ServerHandles :
       /\ IF ~h
          THEN UNCHANGED <<server, endpoints>>
          ELSE /\ endpoints' = ReleaseEndpoint(endpoints, server.server)
               /\ server' = NoServer
       /\ last' = LifeRec("server_destroy", h, 0, FALSE, 0)
       /\ UNCHANGED <<threads, client, heap, caller>>

----------------------------------------------------------------------------
(* The detached thread of janus_oracle_server_start: srv->Wait()           *)

\* what a use of the released grpc::Server object can do to the thread: it
\* blocks for ever, it returns, or it faults
UafOutcomes == {"blocked", "done", "fault"}

\* the thread enters srv->Wait(); on a released object the call is a use
\* after free
ThreadEnterWait ==
    \E t \in 1..Len(threads) :
       /\ threads[t].pc = "launched"
       /\ IF endpoints[threads[t].srv] = "serving"
          THEN threads' = [threads EXCEPT ![t].pc = "waiting"]
          ELSE \E pc \in UafOutcomes :
                  threads' = [threads EXCEPT ![t].pc = pc, ![t].uaf = "enter"]
       /\ UNCHANGED <<server, endpoints, client, heap, caller, last>>

\* how a thread blocked in Wait() comes out of it once Shutdown() has run:
\* it wakes and returns while the object is still there (between Shutdown()
\* and the reset() that follows it), or it wakes after reset() and touches
\* the released object
WakeOutcomes ==
    {[pc |-> "done", uaf |-> "none"]}
    \cup {[pc |-> pc, uaf |-> "wake"] : pc \in UafOutcomes}

\* Wait() returns once the server has been shut down
ThreadLeaveWait ==
    \E t \in 1..Len(threads) :
       /\ threads[t].pc = "waiting"
       /\ endpoints[threads[t].srv] = "freed"
       /\ \E w \in WakeOutcomes :
             threads' = [threads EXCEPT ![t].pc = w.pc, ![t].uaf = w.uaf]
       /\ UNCHANGED <<server, endpoints, client, heap, caller, last>>

----------------------------------------------------------------------------
(* Client handle                                                           *)

\* default member initialisers of struct JanusOracleClient
DefaultConnectTimeoutMs == 1500
DefaultRpcTimeoutMs == 1000

\* arguments a caller passes to set_timeouts
TimeoutArgs == {0, 500}
RpcTimeoutArgs == {0, 500, 2000}

NoClient ==
    [live |-> FALSE, stub |-> FALSE, connect_timeout_ms |-> 0,
     rpc_timeout_ms |-> 0, waited_ms |-> 0, rpc_asked |-> 0]

\* JanusOracleClient{ channel, std::move(stub) }; waited_ms and rpc_asked
\* are history of the handle: the bound of the WaitForConnected it went
\* through (0: none yet) and the rpc argument of the most recent
\* set_timeouts that passed a non-zero one (0: none yet)
NewClient ==
    [live |-> TRUE, stub |-> TRUE,
     connect_timeout_ms |-> DefaultConnectTimeoutMs,
     rpc_timeout_ms |-> DefaultRpcTimeoutMs, waited_ms |-> 0, rpc_asked |-> 0]

ClientHandles == {FALSE} \cup (IF client.live THEN {TRUE} ELSE {})

\* an endpoint is listening at the server's address
Serving(srv, eps) ==
    srv.live /\ srv.server # 0 /\ eps[srv.server] = "serving"

\* record of a client handle call: c and r are the set_timeouts arguments
CliRec(op, h, rc, c, r) ==
    [op |-> op, h |-> h, rc |-> rc, c |-> c, r |-> r, pre |-> client]

\* the deadline janus_oracle_client_connect hands to WaitForConnected
ConnectWaitMs(c) == c.connect_timeout_ms

\* ConnectResult returning the handle although the channel is not ready
ConnectResult_ReturnsUnready(c, waited, ready) ==
    [handle |-> waited, object |-> IF waited THEN c ELSE NoClient]

\* lines 46-50 of janus_oracle_client_connect, for the object c once
\* constructed and awaited: the handle returned (FALSE: nullptr) and the
\* object left allocated (delete c leaves none)
ConnectResult(c, waited, ready) ==
    [handle |-> waited /\ ready,
     object |-> IF waited /\ ready THEN c ELSE NoClient]

\* janus_oracle_client_connect: "exc" an exception in the try block (the
\* channel or the stub could not be made), "nomem" new (std::nothrow)
\* returned nullptr, "wait" the channel was awaited; it becomes ready only
\* if an endpoint listens, and may be late.  The record says how many
\* times the channel was awaited, whether it was ready in time, and whether
\* the object was constructed and released.
ClientConnect ==
    /\ ~client.live
    /\ \E o \in {"exc", "nomem", "wait"}, intime \in BOOLEAN :
          LET c == [NewClient EXCEPT !.waited_ms = ConnectWaitMs(NewClient)]
              waited == o = "wait"
              ready == waited /\ intime /\ Serving(server, endpoints)
              res == ConnectResult(c, waited, ready)
          IN /\ client' = res.object
             /\ last' = [op |-> "client_connect", h |-> res.handle,
                         rc |-> IF res.handle THEN 0 ELSE 1, c |-> 0, r |-> 0,
                         pre |-> IF waited THEN c ELSE NoClient,
                         waits |-> IF waited THEN 1 ELSE 0, ready |-> ready,
                         made |-> waited,
                         released |-> waited /\ ~res.object.live]
    /\ UNCHANGED <<server, endpoints, threads, heap, caller>>

\* janus_oracle_client_disconnect
ClientDisconnect ==
    \E h \in ClientHandles :
       /\ client' = IF h THEN NoClient ELSE client
       /\ last' = CliRec("client_disconnect", h, 0, 0, 0)
       /\ UNCHANGED <<server, endpoints, threads, heap, caller>>

\* SetTimeoutsEffect with the two arguments taken for each other
SetTimeoutsEffect_SwapsFields(cl, c, r) ==
    [cl EXCEPT
       !.connect_timeout_ms = IF r # 0 THEN r ELSE @,
       !.rpc_timeout_ms = IF c # 0 THEN c ELSE @]

\* SetTimeoutsEffect storing both arguments as they come, zero included
SetTimeoutsEffect_StoresZero(cl, c, r) ==
    [cl EXCEPT !.connect_timeout_ms = c, !.rpc_timeout_ms = r]

\* the assignments of janus_oracle_client_set_timeouts
SetTimeoutsEffect(cl, c, r) ==
    [cl EXCEPT
       !.connect_timeout_ms = IF c # 0 THEN c ELSE @,
       !.rpc_timeout_ms = IF r # 0 THEN r ELSE @]

\* janus_oracle_client_set_timeouts
ClientSetTimeouts ==
    \E h \in ClientHandles, c \in TimeoutArgs, r \in RpcTimeoutArgs :
       /\ IF ~h
          THEN /\ client' = client
               /\ last' = CliRec("client_set_timeouts", h, 1, c, r)
          ELSE /\ client' = [SetTimeoutsEffect(client, c, r) EXCEPT
                                !.rpc_asked = IF r # 0 THEN r ELSE @]
               /\ last' = CliRec("client_set_timeouts", h, 0, c, r)
       /\ UNCHANGED <<server, endpoints, threads, heap, caller>>

----------------------------------------------------------------------------
(* Service implementation: JanusOracleServer::ServiceImpl                  *)

\* what a user handler may do.  rc is its return code; the other fields are
\* what it writes through its output pointers or hands to the sink.
HandlerRcs == {0, 1}

Locs ==
    { [uri |-> "a", line |-> 1, character |-> 2],
      [uri |-> "", line |-> 2, character |-> 0],
      [uri |-> Null, line |-> 0, character |-> 1] }

SeqsUpTo(S, n) == UNION { [1..k -> S] : k \in 0..n }

DocBehaviours == [rc : HandlerRcs, ok : BOOLEAN]
HoverBehaviours == [rc : HandlerRcs, md : {Null, "", "a"}]
DefinitionBehaviours == [rc : HandlerRcs, found : BOOLEAN, loc : Locs]
ReferencesBehaviours == [rc : HandlerRcs, stream : SeqsUpTo(Locs, MaxLocs)]

NoBehaviour == [rc |-> 0]

\* default-constructed protobuf responses
DocUpdateResponse == [ok |-> FALSE]
HoverAtResponse == [markdown |-> ""]
DefinitionAtResponse == [found |-> FALSE, uri |-> "", line |-> 0, character |-> 0]
ReferencesAtResponse == [locations |-> <<>>]

\* ServiceImpl::DocUpdate answering OK, ok = true, when no handler is set
ServiceImpl_DocUpdate_DefaultsToOk(owner, hb) ==
    IF ~owner.handlers["doc_update"]
    THEN [status |-> "OK", invoked |-> 0, resp |-> [ok |-> TRUE]]
    ELSE IF hb.rc # 0
    THEN [status |-> "INTERNAL", invoked |-> 1, resp |-> DocUpdateResponse]
    ELSE [status |-> "OK", invoked |-> 1, resp |-> [ok |-> hb.ok]]

\* ServiceImpl::DocUpdate
ServiceImpl_DocUpdate(owner, hb) ==
    IF ~owner.handlers["doc_update"]
    THEN [status |-> "UNIMPLEMENTED", invoked |-> 0, resp |-> DocUpdateResponse]
    ELSE IF hb.rc # 0
    THEN [status |-> "INTERNAL", invoked |-> 1, resp |-> DocUpdateResponse]
    ELSE [status |-> "OK", invoked |-> 1, resp |-> [ok |-> hb.ok]]

\* ServiceImpl::HoverAt taking a handler that set no markdown for a failure
ServiceImpl_HoverAt_NoTextFails(owner, hb) ==
    IF ~owner.handlers["hover_at"]
    THEN [status |-> "UNIMPLEMENTED", invoked |-> 0, resp |-> HoverAtResponse]
    ELSE IF hb.rc # 0 \/ hb.md = Null
    THEN [status |-> "INTERNAL", invoked |-> 1, resp |-> HoverAtResponse]
    ELSE [status |-> "OK", invoked |-> 1, resp |-> [markdown |-> hb.md]]

\* ServiceImpl::HoverAt
ServiceImpl_HoverAt(owner, hb) ==
    IF ~owner.handlers["hover_at"]
    THEN [status |-> "UNIMPLEMENTED", invoked |-> 0, resp |-> HoverAtResponse]
    ELSE IF hb.rc # 0
    THEN [status |-> "INTERNAL", invoked |-> 1, resp |-> HoverAtResponse]
    ELSE [status |-> "OK", invoked |-> 1,
          resp |-> IF hb.md # Null THEN [markdown |-> hb.md] ELSE HoverAtResponse]

\* ServiceImpl::DefinitionAt without the test of the handler's return code
ServiceImpl_DefinitionAt_IgnoresRc(owner, hb) ==
    IF ~owner.handlers["definition_at"]
    THEN [status |-> "UNIMPLEMENTED", invoked |-> 0, resp |-> DefinitionAtResponse]
    ELSE [status |-> "OK", invoked |-> 1,
          resp |-> IF hb.found
                   THEN [found |-> TRUE,
                         uri |-> IF hb.loc.uri # Null THEN hb.loc.uri ELSE "",
                         line |-> hb.loc.line,
                         character |-> hb.loc.character]
                   ELSE DefinitionAtResponse]

\* ServiceImpl::DefinitionAt
ServiceImpl_DefinitionAt(owner, hb) ==
    IF ~owner.handlers["definition_at"]
    THEN [status |-> "UNIMPLEMENTED", invoked |-> 0, resp |-> DefinitionAtResponse]
    ELSE IF hb.rc # 0
    THEN [status |-> "INTERNAL", invoked |-> 1, resp |-> DefinitionAtResponse]
    ELSE [status |-> "OK", invoked |-> 1,
          resp |-> IF hb.found
                   THEN [found |-> TRUE,
                         uri |-> IF hb.loc.uri # Null THEN hb.loc.uri ELSE "",
                         line |-> hb.loc.line,
                         character |-> hb.loc.character]
                   ELSE DefinitionAtResponse]

\* sink_to_response putting the new location first
sink_to_response_Prepends(resp, loc) ==
    [resp EXCEPT !.locations =
        <<[uri |-> IF loc.uri # Null THEN loc.uri ELSE "",
           line |-> loc.line, character |-> loc.character]>> \o @]

\* ServiceImpl::sink_to_response
sink_to_response(resp, loc) ==
    [resp EXCEPT !.locations =
        Append(@, [uri |-> IF loc.uri # Null THEN loc.uri ELSE "",
                   line |-> loc.line, character |-> loc.character])]

\* the handler's calls of the sink, one per streamed location, in order
RECURSIVE SinkAll(_, _)
SinkAll(resp, stream) ==
    IF stream = <<>> THEN resp
    ELSE SinkAll(sink_to_response(resp, Head(stream)), Tail(stream))

\* ServiceImpl::ReferencesAt without the test of the handler's return code
ServiceImpl_ReferencesAt_IgnoresRc(owner, hb) ==
    IF ~owner.handlers["references_at"]
    THEN [status |-> "UNIMPLEMENTED", invoked |-> 0, resp |-> ReferencesAtResponse]
    ELSE [status |-> "OK", invoked |-> 1,
          resp |-> SinkAll(ReferencesAtResponse, hb.stream)]

\* ServiceImpl::ReferencesAt: the sink has filled resp when the handler
\* returns, whatever it returns
ServiceImpl_ReferencesAt(owner, hb) ==
    IF ~owner.handlers["references_at"]
    THEN [status |-> "UNIMPLEMENTED", invoked |-> 0, resp |-> ReferencesAtResponse]
    ELSE IF hb.rc # 0
    THEN [status |-> "INTERNAL", invoked |-> 1,
          resp |-> SinkAll(ReferencesAtResponse, hb.stream)]
    ELSE [status |-> "OK", invoked |-> 1,
          resp |-> SinkAll(ReferencesAtResponse, hb.stream)]

Behaviours(kind) ==
    CASE kind = "doc_update" -> DocBehaviours
      [] kind = "hover_at" -> HoverBehaviours
      [] kind = "definition_at" -> DefinitionBehaviours
      [] kind = "references_at" -> ReferencesBehaviours

EmptyResponse(kind) ==
    CASE kind = "doc_update" -> DocUpdateResponse
      [] kind = "hover_at" -> HoverAtResponse
      [] kind = "definition_at" -> DefinitionAtResponse
      [] kind = "references_at" -> ReferencesAtResponse

Serve(kind, owner, hb) ==
    CASE kind = "doc_update" -> ServiceImpl_DocUpdate(owner, hb)
      [] kind = "hover_at" -> ServiceImpl_HoverAt(owner, hb)
      [] kind = "definition_at" -> ServiceImpl_DefinitionAt(owner, hb)
      [] kind = "references_at" -> ServiceImpl_ReferencesAt(owner, hb)

----------------------------------------------------------------------------
(* The stub call: client->stub->X(&ctx, req, &resp)                        *)

\* time a served request takes to come back, in ms
Latencies == {0, 750}

\* The call as the client sees it.  With no endpoint listening the channel
\* reports UNAVAILABLE and nothing is dispatched.  Otherwise the service
\* runs and answers with a status (answer) and, for OK only, its response
\* message (sent); the client gets DEADLINE_EXCEEDED and no message when
\* the answer is later than the deadline.
StubCall(kind, cl, owner, eps, hb, latency) ==
    LET served == Serve(kind, owner, hb)
        deadline == cl.rpc_timeout_ms
        sent == IF served.status = "OK" THEN served.resp
                ELSE EmptyResponse(kind)
        base == [deadline_ms |-> deadline, user |-> owner.user, hb |-> hb,
                 latency |-> latency, handler |-> owner.handlers[kind]]
    IN IF ~Serving(owner, eps)
       THEN base @@ [status |-> "UNAVAILABLE", resp |-> EmptyResponse(kind),
                     dispatched |-> FALSE, invoked |-> 0, answer |-> "none",
                     sent |-> EmptyResponse(kind)]
       ELSE base @@ [status |-> IF latency > deadline THEN "DEADLINE_EXCEEDED"
                                ELSE served.status,
                     resp |-> IF latency > deadline THEN EmptyResponse(kind)
                              ELSE sent,
                     dispatched |-> TRUE, invoked |-> served.invoked,
                     answer |-> served.status, sent |-> sent]

\* every way the stub call can go in the current state
StubCalls(kind) ==
    IF ~Serving(server, endpoints)
    THEN { StubCall(kind, client, server, endpoints, NoBehaviour, 0) }
    ELSE { StubCall(kind, client, server, endpoints, hb, lat) :
             hb \in (IF server.handlers[kind] THEN Behaviours(kind)
                     ELSE {NoBehaviour}),
             lat \in Latencies }

\* no stub call was made
NoCall ==
    [deadline_ms |-> 0, user |-> 0, hb |-> NoBehaviour, latency |-> 0,
     handler |-> FALSE, status |-> "none", resp |-> <<>>, sent |-> <<>>,
     dispatched |-> FALSE, invoked |-> 0, answer |-> "none"]

\* ClientStatus without the test for DEADLINE_EXCEEDED
ClientStatus_NoDeadlineTest(status) == 2

\* ClientStatus with a code of its own for UNIMPLEMENTED
ClientStatus_OwnCodeForUnimplemented(status) ==
    IF status = "DEADLINE_EXCEEDED" THEN 5
    ELSE IF status = "UNIMPLEMENTED" THEN 6
    ELSE 2

\* if (!status.ok()) { if (... == DEADLINE_EXCEEDED) return 5; return 2; }
ClientStatus(status) ==
    IF status = "DEADLINE_EXCEEDED" THEN 5 ELSE 2

----------------------------------------------------------------------------
(* Client calls                                                            *)

\* a value a caller's pointer variable may hold before a call
Stale == "STALE"

\* Heap blocks are addresses 1..MaxAddrs (0 is NULL).  A block is "free",
\* "held" (handed out and reachable by the caller through an output) or
\* "lost" (handed out and reachable by nobody).  The variable heap follows
\* the blocks the caller holds: a block lost by a call is told in the
\* record of that call and is of no concern to the caller afterwards.
Addrs == 1..MaxAddrs

EmptyHeap == [a \in Addrs |-> "free"]

FreeAddrs(h) == {a \in Addrs : h[a] = "free"}

\* malloc: a block that is not in use, NULL when there is none
Malloc(h) ==
    IF FreeAddrs(h) = {} THEN 0
    ELSE CHOOSE a \in FreeAddrs(h) : \A b \in FreeAddrs(h) : a <= b

\* the heap once malloc has handed out block a (a = 0: it has not)
Taken(h, a) == IF a = 0 THEN h ELSE [h EXCEPT ![a] = "held"]

\* the caller's view of the heap h after a call: the blocks it can reach
Kept(h) == [a \in Addrs |-> IF h[a] = "held" THEN "held" ELSE "free"]

\* the heap when the blocks handed out since h0 were stored nowhere
Dropped(h0, h) ==
    [a \in Addrs |-> IF h0[a] = "free" /\ h[a] # "free" THEN "lost" ELSE h[a]]

\* dup_cstr handing out a block it has handed out before, when there is one
dup_cstr_block_Shares(h, s, malloc_ok) ==
    IF s = "" THEN 0
    ELSE IF ~malloc_ok THEN 0
    ELSE IF \E a \in Addrs : h[a] = "held"
         THEN CHOOSE a \in Addrs : h[a] = "held"
         ELSE Malloc(h)

\* the block dup_cstr returns: its own malloc, none for the empty string
dup_cstr_block(h, s, malloc_ok) ==
    IF s = "" THEN 0
    ELSE IF ~malloc_ok THEN 0
    ELSE Malloc(h)

\* dup_cstr on each of texts in turn (the loop of janus_oracle_references_at);
\* ok[i] says whether the malloc of the i-th succeeds
RECURSIVE DupAll(_, _, _)
DupAll(h, texts, ok) ==
    IF texts = <<>> THEN [heap |-> h, blocks |-> <<>>]
    ELSE LET a == dup_cstr_block(h, Head(texts), Head(ok))
             rest == DupAll(Taken(h, a), Tail(texts), Tail(ok))
         IN [heap |-> rest.heap, blocks |-> <<a>> \o rest.blocks]

\* what a call did to the heap: the heap before and after, and the blocks
\* its mallocs returned, in the order of the calls (0: none)
NoAlloc(h) == [pre |-> h, made |-> <<>>, post |-> h]

\* the mallocs that were to succeed were given a block
Granted(texts, ok, blocks) ==
    \A i \in 1..Len(texts) : (texts[i] # "" /\ ok[i]) => blocks[i] # 0

\* janus_oracle_free_string: free() of a pointer the caller holds, or NULL
FreeString ==
    /\ \E a \in {0} \cup {b \in Addrs : heap[b] = "held"} :
          /\ heap' = IF a = 0 THEN heap ELSE [heap EXCEPT ![a] = "free"]
          /\ last' = [op |-> "free_string", h |-> FALSE, rc |-> 0, addr |-> a,
                      pre |-> heap]
    /\ UNCHANGED <<server, endpoints, threads, client, caller>>

\* dup_cstr; malloc_ok says whether its malloc succeeds
dup_cstr(s, malloc_ok) ==
    IF s = "" THEN Null
    ELSE IF ~malloc_ok THEN Null
    ELSE s

\* *p = v when the caller supplied the pointer p
Put(vals, ptr, name, v) ==
    IF name \in ptr THEN [vals EXCEPT ![name] = v] ELSE vals

\* record of a client call: frame is what the caller passed (the output
\* pointers it supplied and what its variables held), out its variables at
\* return, remote whether the stub call was made, call how that went, exc
\* and oom what went wrong locally, mem what the call did to the heap
RpcRec(op, h, frame, rc, out, remote, call, exc, oom) ==
    [op |-> op, h |-> h, stub |-> h /\ client.stub, frame |-> frame,
     rc |-> rc, out |-> out, remote |-> remote, call |-> call, exc |-> exc,
     oom |-> oom, mem |-> NoAlloc(heap)]

\* InvalidHandleStatus with doc_update taking a null handle for success
InvalidHandleStatus_DocUpdateOk(op) == IF op = "doc_update" THEN 0 ELSE 1

\* if (!client || !client->stub) return 1;
InvalidHandleStatus(op) == 1

\* the two callers: one releases every block it was given before its next
\* call, the other keeps blocks across calls
ReleasingCaller == [keeps |-> FALSE]
KeepingCaller == [keeps |-> TRUE]

\* a caller does not issue a call while the outputs of the previous one are
\* the last thing recorded, and a caller that releases does not while it
\* holds a block
CallerReady ==
    /\ last.op \notin Kinds
    /\ caller.keeps \/ heap = EmptyHeap

DocFrames == [ptr : SUBSET {"ok"}, pre : [ok : BOOLEAN]]

\* janus_oracle_doc_update
ClientDocUpdate ==
    /\ CallerReady
    /\ \E h \in ClientHandles, frame \in DocFrames :
       /\ IF ~h \/ ~client.stub
          THEN last' = RpcRec("doc_update", h, frame,
                              InvalidHandleStatus("doc_update"), frame.pre, FALSE,
                              NoCall, FALSE, {})
          ELSE \E exc \in BOOLEAN :
                 IF exc
                 THEN last' = RpcRec("doc_update", h, frame, 3, frame.pre,
                                     FALSE, NoCall, TRUE, {})
                 ELSE \E call \in StubCalls("doc_update") :
                        IF call.status # "OK"
                        THEN last' = RpcRec("doc_update", h, frame,
                                            ClientStatus(call.status),
                                            frame.pre, TRUE, call, FALSE, {})
                        ELSE last' = RpcRec("doc_update", h, frame, 0,
                                            Put(frame.pre, frame.ptr, "ok",
                                                call.resp.ok),
                                            TRUE, call, FALSE, {})
       /\ heap' = Kept(last'.mem.post)
       /\ UNCHANGED <<server, endpoints, threads, client, caller>>

HoverFrames == [ptr : SUBSET {"markdown"}, pre : [markdown : {Null, Stale}]]

\* janus_oracle_hover_at
ClientHoverAt ==
    /\ CallerReady
    /\ \E h \in ClientHandles, frame \in HoverFrames :
       LET cleared == Put(frame.pre, frame.ptr, "markdown", Null)
       IN
       /\ IF ~h \/ ~client.stub
          THEN last' = RpcRec("hover_at", h, frame,
                              InvalidHandleStatus("hover_at"), cleared, FALSE,
                              NoCall, FALSE, {})
          ELSE \E exc \in BOOLEAN :
                 IF exc
                 THEN last' = RpcRec("hover_at", h, frame, 3, cleared,
                                     FALSE, NoCall, TRUE, {})
                 ELSE \E call \in StubCalls("hover_at") :
                        IF call.status # "OK"
                        THEN last' = RpcRec("hover_at", h, frame,
                                            ClientStatus(call.status),
                                            cleared, TRUE, call, FALSE, {})
                        ELSE \E oom \in SUBSET {0} :
                               LET texts == IF "markdown" \in frame.ptr
                                            THEN <<call.resp.markdown>>
                                            ELSE <<>>
                                   ok == [i \in 1..Len(texts) |-> 0 \notin oom]
                                   m == DupAll(heap, texts, ok)
                               IN /\ Granted(texts, ok, m.blocks)
                                  /\ last' =
                                       [RpcRec("hover_at", h, frame, 0,
                                               Put(cleared, frame.ptr, "markdown",
                                                   dup_cstr(call.resp.markdown,
                                                            0 \notin oom)),
                                               TRUE, call, FALSE, oom)
                                        EXCEPT !.mem = [pre |-> heap,
                                                        made |-> m.blocks,
                                                        post |-> m.heap]]
       /\ heap' = Kept(last'.mem.post)
       /\ UNCHANGED <<server, endpoints, threads, client, caller>>

DefinitionOuts == {"found", "uri", "line", "character"}

DefinitionFrames ==
    { [ptr |-> p,
       pre |-> [found |-> TRUE, uri |-> Stale, line |-> 9, character |-> 9]] :
      p \in SUBSET DefinitionOuts }
    \cup
    { [ptr |-> DefinitionOuts,
       pre |-> [found |-> FALSE, uri |-> Null, line |-> 0, character |-> 0]] }

\* lines 149-154 of janus_oracle_definition_at: the outputs on an OK reply
DefinitionOutputs(cleared, ptr, resp, malloc_ok) ==
    LET f == Put(cleared, ptr, "found", resp.found)
    IN IF resp.found
       THEN Put(Put(Put(f, ptr, "uri", dup_cstr(resp.uri, malloc_ok)),
                    ptr, "line", resp.line),
                ptr, "character", resp.character)
       ELSE f

\* janus_oracle_definition_at
ClientDefinitionAt ==
    /\ CallerReady
    /\ \E h \in ClientHandles, frame \in DefinitionFrames :
       LET cleared == Put(Put(frame.pre, frame.ptr, "uri", Null),
                          frame.ptr, "found", FALSE)
       IN
       /\ IF ~h \/ ~client.stub
          THEN last' = RpcRec("definition_at", h, frame,
                              InvalidHandleStatus("definition_at"), cleared, FALSE,
                              NoCall, FALSE, {})
          ELSE \E exc \in BOOLEAN :
                 IF exc
                 THEN last' = RpcRec("definition_at", h, frame, 3, cleared,
                                     FALSE, NoCall, TRUE, {})
                 ELSE \E call \in StubCalls("definition_at") :
                        IF call.status # "OK"
                        THEN last' = RpcRec("definition_at", h, frame,
                                            ClientStatus(call.status),
                                            cleared, TRUE, call, FALSE, {})
                        ELSE \E oom \in SUBSET {0} :
                               LET texts == IF call.resp.found
                                               /\ "uri" \in frame.ptr
                                            THEN <<call.resp.uri>>
                                            ELSE <<>>
                                   ok == [i \in 1..Len(texts) |-> 0 \notin oom]
                                   m == DupAll(heap, texts, ok)
                               IN /\ Granted(texts, ok, m.blocks)
                                  /\ last' =
                                       [RpcRec("definition_at", h, frame, 0,
                                               DefinitionOutputs(cleared,
                                                   frame.ptr, call.resp,
                                                   0 \notin oom),
                                               TRUE, call, FALSE, oom)
                                        EXCEPT !.mem = [pre |-> heap,
                                                        made |-> m.blocks,
                                                        post |-> m.heap]]
       /\ heap' = Kept(last'.mem.post)
       /\ UNCHANGED <<server, endpoints, threads, client, caller>>

\* a caller's JanusOracleLocation* variable: NULL, a stale pointer, or the
\* array malloc'ed by references_at
NullArray == [ptr |-> "null", elems |-> <<>>]
StaleArray == [ptr |-> "stale", elems |-> <<>>]

ReferencesOuts == {"locations", "count"}

ReferencesFrames ==
    { [ptr |-> p, pre |-> [locations |-> StaleArray, count |-> 9]] :
      p \in SUBSET ReferencesOuts }
    \cup
    { [ptr |-> ReferencesOuts, pre |-> [locations |-> NullArray, count |-> 0]] }

\* ReferencesOutputs storing the count before the array is allocated
ReferencesOutputs_CountsFirst(cleared, ptr, resp, oom) ==
    LET n == Len(resp.locations)
        arr == [i \in 1..n |->
                  [uri |-> dup_cstr(resp.locations[i].uri, i \notin oom),
                   line |-> resp.locations[i].line,
                   character |-> resp.locations[i].character]]
        counted == Put(cleared, ptr, "count", n)
    IN IF n = 0 THEN [rc |-> 0, out |-> cleared]
       ELSE IF 0 \in oom THEN [rc |-> 3, out |-> counted]
       ELSE [rc |-> 0,
             out |-> Put(counted, ptr, "locations",
                         [ptr |-> "heap", elems |-> arr])]

\* lines 185-197 of janus_oracle_references_at: the outputs and return code
\* on an OK reply; oom holds the mallocs that fail: 0 the array's, i the one
\* of dup_cstr for entry i
ReferencesOutputs(cleared, ptr, resp, oom) ==
    LET n == Len(resp.locations)
        arr == [i \in 1..n |->
                  [uri |-> dup_cstr(resp.locations[i].uri, i \notin oom),
                   line |-> resp.locations[i].line,
                   character |-> resp.locations[i].character]]
    IN IF n = 0 THEN [rc |-> 0, out |-> cleared]
       ELSE IF 0 \in oom THEN [rc |-> 3, out |-> cleared]
       ELSE [rc |-> 0,
             out |-> Put(Put(cleared, ptr, "locations",
                             [ptr |-> "heap", elems |-> arr]),
                         ptr, "count", n)]

\* lines 185-197 of janus_oracle_references_at on the heap h: the malloc of
\* the array, then dup_cstr for each entry; the blocks stay with the caller
\* only if it supplied locations_out
ReferencesBlocks(h, ptr, resp, oom) ==
    LET n == Len(resp.locations)
        arr == IF n = 0 \/ 0 \in oom THEN 0 ELSE Malloc(h)
        texts == [i \in 1..n |-> resp.locations[i].uri]
        ok == [i \in 1..n |-> i \notin oom]
        m == DupAll(Taken(h, arr), texts, ok)
    IN IF arr = 0
       THEN [pre |-> h, made |-> <<arr>>, post |-> h,
             granted |-> n = 0 \/ 0 \in oom]
       ELSE [pre |-> h, made |-> <<arr>> \o m.blocks,
             post |-> IF "locations" \in ptr THEN m.heap
                      ELSE Dropped(h, m.heap),
             granted |-> Granted(texts, ok, m.blocks)]

\* the code the catch (...) of janus_oracle_references_at returns
ReferencesCatchStatus == 4

\* janus_oracle_references_at
ClientReferencesAt ==
    /\ CallerReady
    /\ \E h \in ClientHandles, frame \in ReferencesFrames :
       LET cleared == Put(Put(frame.pre, frame.ptr, "locations", NullArray),
                          frame.ptr, "count", 0)
       IN
       /\ IF ~h \/ ~client.stub
          THEN last' = RpcRec("references_at", h, frame,
                              InvalidHandleStatus("references_at"), cleared, FALSE,
                              NoCall, FALSE, {})
          ELSE \E exc \in BOOLEAN :
                 IF exc
                 THEN last' = RpcRec("references_at", h, frame,
                                     ReferencesCatchStatus, cleared,
                                     FALSE, NoCall, TRUE, {})
                 ELSE \E call \in StubCalls("references_at") :
                        IF call.status # "OK"
                        THEN last' = RpcRec("references_at", h, frame,
                                            ClientStatus(call.status),
                                            cleared, TRUE, call, FALSE, {})
                        ELSE \E oom \in SUBSET (0..Len(call.resp.locations)) :
                               LET r == ReferencesOutputs(cleared, frame.ptr,
                                                          call.resp, oom)
                                   m == ReferencesBlocks(heap, frame.ptr,
                                                         call.resp, oom)
                               IN /\ m.granted
                                  /\ last' =
                                       [RpcRec("references_at", h, frame,
                                               r.rc, r.out, TRUE, call,
                                               FALSE, oom)
                                        EXCEPT !.mem = [pre |-> m.pre,
                                                        made |-> m.made,
                                                        post |-> m.post]]
       /\ heap' = Kept(last'.mem.post)
       /\ UNCHANGED <<server, endpoints, threads, client, caller>>

----------------------------------------------------------------------------

Init ==
    /\ server = NoServer
    /\ endpoints = <<>>
    /\ threads = <<>>
    /\ client = NoClient
    /\ heap = EmptyHeap
    /\ caller = ReleasingCaller
    /\ last = LifeRec("none", FALSE, 0, FALSE, 0)

NextServer ==
    \/ ServerCreate
    \/ ServerSetHandlers
    \/ ServerStart
    \/ ServerStop
    \/ ServerDestroy
    \/ ThreadEnterWait
    \/ ThreadLeaveWait

SpecServer == Init /\ [][NextServer]_vars

\* a detached thread is scheduled: it reaches Wait(), and it comes out of
\* Wait() once its server has been shut down
SpecServerFair ==
    SpecServer /\ WF_vars(ThreadEnterWait) /\ WF_vars(ThreadLeaveWait)

\* The client side, against a server in any of the configurations the
\* server API reaches for it: not created, created and not started, or
\* running; the server may then be stopped.
ServerConfigs ==
    {NoServer}
    \cup { [NewServer EXCEPT !.handlers = t, !.user = u] :
             t \in HandlerTables, u \in Users }
    \cup { [NewServer EXCEPT !.handlers = t, !.user = u, !.server = 1,
                             !.started = TRUE, !.phase = "running"] :
             t \in HandlerTables, u \in Users }

InitClient ==
    /\ server \in ServerConfigs
    /\ endpoints = IF server.server = 0 THEN <<>> ELSE <<"serving">>
    /\ threads = IF server.server = 0 THEN <<>>
                 ELSE <<[srv |-> 1, pc |-> "launched", uaf |-> "none"]>>
    /\ client = NoClient
    /\ heap = EmptyHeap
    /\ caller = ReleasingCaller
    /\ last = LifeRec("none", FALSE, 0, FALSE, 0)

NextClient ==
    \/ ClientConnect
    \/ ClientDisconnect
    \/ ClientSetTimeouts
    \/ ServerStop
    \/ FreeString
    \/ ClientDocUpdate
    \/ ClientHoverAt
    \/ ClientDefinitionAt
    \/ ClientReferencesAt

SpecClient == InitClient /\ [][NextClient]_vars

\* The caller's heap: a connected client of a running server with all four
\* handlers, making calls and releasing what they returned.
InitHeap ==
    /\ server = [NewServer EXCEPT !.handlers = [k \in Kinds |-> TRUE],
                                  !.server = 1, !.started = TRUE,
                                  !.phase = "running"]
    /\ endpoints = <<"serving">>
    /\ threads = <<[srv |-> 1, pc |-> "launched", uaf |-> "none"]>>
    /\ client = [NewClient EXCEPT !.waited_ms = ConnectWaitMs(NewClient)]
    /\ heap = EmptyHeap
    /\ caller = KeepingCaller
    /\ last = LifeRec("none", FALSE, 0, FALSE, 0)

NextHeap ==
    \/ ClientHoverAt
    \/ ClientDefinitionAt
    \/ ClientReferencesAt
    \/ FreeString

SpecHeap == InitHeap /\ [][NextHeap]_vars

Next == NextServer \/ NextClient \/ NextHeap

Spec == Init /\ [][Next]_vars

----------------------------------------------------------------------------
(* Server handle properties (SpecServer)                                   *)

\* C4: the listening endpoint of a server handle is present only between a
\* start that returned 0 and the next stop or destroy: it is absent before
\* the first successful start, absent after a failed start and absent after
\* stop, and destroy releases it (stop) before it releases the handle.
C4_EndpointOnlyWhileStarted ==
    /\ server.server # 0 => server.started
    /\ server.phase \in {"created", "stopped"} => server.server = 0
    /\ (last.op = "server_start" /\ last.h /\ last.rc # 0) => server.server = 0
    /\ (last.op = "server_destroy" /\ last.h /\ last.pre.server # 0)
          => endpoints[last.pre.server] = "freed"

\* C5: stop on a non-null handle returns 0; on a never-started, failed-start
\* or already-stopped handle it changes nothing, on a running handle it
\* shuts the endpoint down; stop on a null handle returns 1.
C5_StopIdempotent ==
    last.op = "server_stop" =>
       IF ~last.h
       THEN last.rc = 1 /\ server.server = last.pre.server
            /\ endpoints = last.eps
       ELSE /\ last.rc = 0
            /\ server.server = 0
            /\ last.pre.phase \in {"created", "start_failed", "stopped"}
                  => /\ server.server = last.pre.server
                     /\ endpoints = last.eps
            /\ last.pre.phase = "running"
                  => /\ last.pre.server # 0
                     /\ endpoints[last.pre.server] = "freed"

\* C6: start on a non-null handle returns 0 exactly when BuildAndStart bound
\* an endpoint and one serve thread was launched, and then the endpoint is
\* serving and that thread has not finished when start has returned; a
\* failure to build returns 2, an exception returns 3, and neither launches
\* a thread; a null handle returns 1.
C6_StartCodes ==
    last.op = "server_start" =>
       IF ~last.h
       THEN last.rc = 1 /\ ~last.bound /\ last.launched = 0
       ELSE /\ last.rc \in {0, 2, 3}
            /\ last.rc = 0 <=> (last.bound /\ last.launched = 1)
            /\ last.rc = 2 <=> (~last.bound /\ ~last.exc)
            /\ last.rc = 3 <=> last.exc
            /\ last.rc # 0 => last.launched = 0
            /\ last.rc = 0 =>
                 /\ Serving(server, endpoints)
                 /\ Cardinality({t \in 1..Len(threads) :
                                    threads[t].srv = server.server}) = 1
                 /\ \A t \in 1..Len(threads) :
                       threads[t].srv = server.server
                          => threads[t].pc \in {"launched", "waiting"}

\* start has returned 0 and its serve thread is blocked in Wait()
C6_Witness ==
    /\ last.op = "server_start" /\ last.h /\ last.rc = 0
    /\ \E t \in 1..Len(threads) :
          threads[t].srv = server.server /\ threads[t].pc = "waiting"

----------------------------------------------------------------------------
(* Client call properties (SpecClient)                                     *)

IsCall == last.op \in Kinds

\* C1: a client call on a null handle (or a handle with no stub) returns 1
\* and makes no remote call; a remote call whose deadline elapsed returns
\* 5; any other non-OK remote status returns 2; 5 is returned for nothing
\* but a deadline failure and 2 for no deadline failure.
C1_CallStatus ==
    IsCall =>
       /\ (~last.h \/ ~last.stub) => (last.rc = 1 /\ ~last.remote)
       /\ last.rc = 1 => (~last.remote /\ ~last.call.dispatched)
       /\ (last.remote /\ last.call.dispatched
              /\ last.call.latency > last.call.deadline_ms)
             => (last.call.status = "DEADLINE_EXCEEDED" /\ last.rc = 5)
       /\ (last.remote /\ last.call.status = "DEADLINE_EXCEEDED") => last.rc = 5
       /\ (last.remote /\ last.call.status \notin {"OK", "DEADLINE_EXCEEDED"})
             => last.rc = 2
       /\ last.rc = 5 => (last.remote /\ last.call.status = "DEADLINE_EXCEEDED")
       /\ last.rc = 2 => (last.remote
                          /\ last.call.status \in {"UNAVAILABLE", "UNIMPLEMENTED",
                                                   "INTERNAL"})

\* references_at came back 5: the handler answered after the deadline
C1_Witness ==
    /\ last.op = "references_at" /\ last.h /\ last.rc = 5
    /\ last.call.latency > last.call.deadline_ms
    /\ last.call.answer = "OK"

\* the text a pointer handed over by a handler puts on the wire
TextOf(p) == IF p = Null THEN "" ELSE p

\* the response message msg holds what the handler wrote
CarriesOutputs(kind, hb, msg) ==
    CASE kind = "doc_update" -> msg.ok = hb.ok
      [] kind = "hover_at" -> msg.markdown = TextOf(hb.md)
      [] kind = "definition_at" ->
            /\ msg.found = hb.found
            /\ hb.found => /\ msg.uri = TextOf(hb.loc.uri)
                           /\ msg.line = hb.loc.line
                           /\ msg.character = hb.loc.character
      [] kind = "references_at" ->
            /\ Len(msg.locations) = Len(hb.stream)
            /\ \A i \in 1..Len(hb.stream) :
                  /\ msg.locations[i].uri = TextOf(hb.stream[i].uri)
                  /\ msg.locations[i].line = hb.stream[i].line
                  /\ msg.locations[i].character = hb.stream[i].character

\* C2: a dispatched request whose handler is absent is answered
\* UNIMPLEMENTED and no handler runs; with the handler present it runs once,
\* a non-zero return is answered INTERNAL with no response message, a zero
\* return is answered OK with the handler's outputs in the message.
C2_Dispatch ==
    (IsCall /\ last.remote /\ last.call.dispatched) =>
       IF ~last.call.handler
       THEN /\ last.call.answer = "UNIMPLEMENTED"
            /\ last.call.invoked = 0
            /\ last.call.sent = EmptyResponse(last.op)
       ELSE /\ last.call.invoked = 1
            /\ last.call.hb.rc # 0
                  => /\ last.call.answer = "INTERNAL"
                     /\ last.call.sent = EmptyResponse(last.op)
            /\ last.call.hb.rc = 0
                  => /\ last.call.answer = "OK"
                     /\ CarriesOutputs(last.op, last.call.hb, last.call.sent)

\* the definition handler failed after writing a definition: INTERNAL, and
\* nothing of what it wrote is sent
C2_Witness ==
    /\ last.op = "definition_at" /\ last.remote /\ last.call.dispatched
    /\ last.call.handler /\ last.call.hb.rc # 0 /\ last.call.hb.found
    /\ last.call.answer = "INTERNAL"
    /\ last.call.sent = DefinitionAtResponse

\* the code a client call returns when a registered handler returns non-zero
HandlerFailureCode == 2

\* C3 as claimed: a call answered UNIMPLEMENTED returns a non-zero code other
\* than the one returned when a registered handler fails.
C3_UnimplementedHasOwnCode ==
    (IsCall /\ last.remote /\ last.call.status = "UNIMPLEMENTED")
       => (last.rc # 0 /\ last.rc # HandlerFailureCode)

\* C3 as amended: against a serving server, a call of an operation with no
\* handler is answered UNIMPLEMENTED without invoking anything and, in time,
\* returns the non-zero code 2; a call whose handler returns non-zero is
\* answered INTERNAL, a different status, and returns the same code 2.
C3_UnimplementedReturnsTwo ==
    (IsCall /\ last.remote /\ last.call.dispatched
        /\ last.call.latency <= last.call.deadline_ms) =>
       /\ ~last.call.handler
             => /\ last.call.status = "UNIMPLEMENTED"
                /\ last.call.invoked = 0
                /\ last.rc = 2
       /\ (last.call.handler /\ last.call.hb.rc # 0)
             => /\ last.call.status = "INTERNAL"
                /\ last.rc = HandlerFailureCode

\* hover_at against a running server with no handler registered
C3_Witness ==
    /\ last.op = "hover_at" /\ last.h /\ last.remote
    /\ server.handlers = NoHandlers /\ Serving(server, endpoints)
    /\ last.call.status = "UNIMPLEMENTED"
    /\ last.rc = 2

\* the uri a client gets for the uri p a handler supplied
UriOf(p) == IF p \in {Null, ""} THEN Null ELSE p

C8_NotFoundDefaults ==
    (last.op = "definition_at" /\ last.remote /\ last.call.status = "OK"
        /\ ~last.call.hb.found /\ last.frame.ptr = DefinitionOuts)
       => /\ last.rc = 0
          /\ last.out = [found |-> FALSE, uri |-> Null, line |-> 0,
                         character |-> 0]

\* C9: an exception while a call is built or issued is reported as 3 by
\* every call, references_at included; 4 is reported by references_at only
\* and only for a failure while the result is marshaled.
C9_LocalErrorCodes ==
    IsCall =>
       /\ last.exc => last.rc = 3
       /\ last.rc = 4 => /\ last.op = "references_at"
                         /\ last.remote /\ last.call.status = "OK"
                         /\ last.oom # {}
       /\ (last.op = "references_at" /\ last.remote
              /\ last.call.status = "OK" /\ 0 \in last.oom
              /\ Len(last.call.resp.locations) > 0) => last.rc = 4

\* C10: once set_timeouts has set a non-zero connect timeout c on a handle,
\* the wait for the channel of that handle is bounded by c.
C10_ConnectTimeoutBoundsWait ==
    (last.op = "client_set_timeouts" /\ last.h /\ last.c # 0 /\ client.live)
       => client.waited_ms = last.c

----------------------------------------------------------------------------
(* Timeouts and connection (SpecClient)                                    *)

\* C11: the deadline of a call is the rpc argument of the most recent
\* set_timeouts on the handle that passed a non-zero one, or the 1000 ms
\* default if there was none, and a served call whose answer takes longer
\* than that returns 5.
C11_CallDeadline ==
    (IsCall /\ last.remote) =>
       LET asked == IF client.rpc_asked # 0 THEN client.rpc_asked
                    ELSE DefaultRpcTimeoutMs
       IN /\ last.call.deadline_ms = asked
          /\ (last.call.dispatched /\ last.call.latency > asked) => last.rc = 5
          /\ (last.call.dispatched /\ last.call.latency <= asked) => last.rc # 5

\* after set_timeouts(.., 500) an answer that takes 750 ms is too late
C11_Witness ==
    /\ last.op = "hover_at" /\ last.remote /\ last.call.dispatched
    /\ client.rpc_asked = 500 /\ last.call.deadline_ms = 500
    /\ last.call.latency = 750 /\ last.rc = 5

\* C12: set_timeouts on a null handle returns 1; on a valid handle it
\* returns 0 and, for each of the two timeouts on its own, keeps the field
\* when the argument is 0 and stores the argument otherwise.
C12_SetTimeouts ==
    last.op = "client_set_timeouts" =>
       IF ~last.h
       THEN last.rc = 1 /\ client = last.pre
       ELSE /\ last.rc = 0
            /\ client.connect_timeout_ms =
                  IF last.c = 0 THEN last.pre.connect_timeout_ms ELSE last.c
            /\ client.rpc_timeout_ms =
                  IF last.r = 0 THEN last.pre.rpc_timeout_ms ELSE last.r
            /\ client.live /\ client.stub = last.pre.stub

\* set_timeouts(0, 500) on a handle with the default timeouts
C12_Witness ==
    /\ last.op = "client_set_timeouts" /\ last.h /\ last.c = 0 /\ last.r = 500
    /\ last.pre.connect_timeout_ms = DefaultConnectTimeoutMs
    /\ last.pre.rpc_timeout_ms = DefaultRpcTimeoutMs
    /\ client.connect_timeout_ms = DefaultConnectTimeoutMs
    /\ client.rpc_timeout_ms = 500

\* the values the calls clear their outputs to
Defensive(op) ==
    CASE op = "doc_update" -> [ok |-> FALSE]
      [] op = "hover_at" -> [markdown |-> Null]
      [] op = "definition_at" ->
            [found |-> FALSE, uri |-> Null, line |-> 0, character |-> 0]
      [] op = "references_at" -> [locations |-> NullArray, count |-> 0]

\* C13: a call on a null handle (or a handle with no stub) returns a
\* non-zero code, makes no remote call, and leaves in each of the caller's
\* output variables either what it held or the null/false/zero value.
C13_FailsClosed ==
    (IsCall /\ (~last.h \/ ~last.stub)) =>
       /\ last.rc # 0
       /\ ~last.remote
       /\ \A n \in DOMAIN last.out :
             last.out[n] \in {last.frame.pre[n], Defensive(last.op)[n]}

\* definition_at on a null handle with all four outputs supplied: uri and
\* found are cleared, line and character keep what they held
C13_Witness ==
    /\ last.op = "definition_at" /\ ~last.h /\ last.rc = 1
    /\ last.frame.ptr = DefinitionOuts /\ last.frame.pre.uri = Stale
    /\ last.out = [found |-> FALSE, uri |-> Null, line |-> 9, character |-> 9]

\* C14: connect awaits the channel at most once; a handle it returns is
\* allocated, has a stub, and its channel was ready within the connect
\* timeout; when the channel was not ready in time connect returns null,
\* and whenever it returns null no client object is left allocated: the one
\* it constructed has been released.
C14_NoPartialHandle ==
    last.op = "client_connect" =>
       /\ last.waits <= 1
       /\ last.h => /\ client.live /\ client.stub
                    /\ last.waits = 1 /\ last.ready
                    /\ client.waited_ms = client.connect_timeout_ms
       /\ (last.waits = 1 /\ ~last.ready) => ~last.h
       /\ ~last.h => /\ ~client.live
                     /\ last.made => last.released

\* connect with no listener at the address: one wait, the object released
C14_Witness ==
    /\ last.op = "client_connect" /\ ~last.h
    /\ ~Serving(server, endpoints)
    /\ last.waits = 1 /\ last.made /\ last.released /\ ~client.live

\* C17: when the hover handler returns 0 without setting a markdown value
\* and the answer comes back in time, hover_at returns 0 and the markdown
\* output is null.
C17_NoHoverIsSuccess ==
    (last.op = "hover_at" /\ last.remote /\ last.call.dispatched
        /\ last.call.handler /\ last.call.hb.rc = 0 /\ last.call.hb.md = Null
        /\ last.call.latency <= last.call.deadline_ms) =>
       /\ last.rc = 0
       /\ "markdown" \in last.frame.ptr => last.out.markdown = Null

\* the caller's variable held a stale pointer; it comes back null with 0
C17_Witness ==
    /\ last.op = "hover_at" /\ last.remote /\ last.call.handler
    /\ last.call.hb.rc = 0 /\ last.call.hb.md = Null
    /\ last.frame.ptr = {"markdown"} /\ last.frame.pre.markdown = Stale
    /\ last.rc = 0 /\ last.out.markdown = Null

\* C18: for a doc_update served in time, a registered handler that returns
\* 0 makes doc_update return 0 with the ok output equal to the ok the
\* handler wrote; with no handler registered doc_update returns non-zero,
\* the server sends no ok = true and the call writes nothing to the ok
\* output.
C18_DocUpdateOk ==
    (last.op = "doc_update" /\ last.remote /\ last.call.dispatched
        /\ last.call.latency <= last.call.deadline_ms) =>
       /\ (last.call.handler /\ last.call.hb.rc = 0) =>
             /\ last.rc = 0
             /\ "ok" \in last.frame.ptr => last.out.ok = last.call.hb.ok
       /\ ~last.call.handler =>
             /\ last.rc # 0
             /\ last.call.status # "OK"
             /\ last.call.sent.ok = FALSE
             /\ last.out.ok = last.frame.pre.ok

\* the handler wrote ok = true over a variable that held false
C18_Witness ==
    /\ last.op = "doc_update" /\ last.remote /\ last.call.handler
    /\ last.call.hb.rc = 0 /\ last.call.hb.ok
    /\ last.frame.ptr = {"ok"} /\ ~last.frame.pre.ok
    /\ last.rc = 0 /\ last.out.ok

----------------------------------------------------------------------------
(* Serving (SpecServer, SpecServerFair)                                    *)

\* C15: while a handle is started (from a start that returned 0 to the next
\* stop), no step changes the handlers or the user context the service
\* reads when it dispatches a request.
C15_HandlersFixedWhileServing ==
    [][(server.started /\ server'.started)
          => (server'.handlers = server.handlers /\ server'.user = server.user)]_vars

\* C19: a start that returns 0 launches one serve thread, and every serve
\* thread whose endpoint has been shut down and released (by stop, destroy
\* or a later start) eventually terminates.
C19_ServeThreadsTerminate ==
    /\ []((last.op = "server_start" /\ last.rc = 0) => last.launched = 1)
    /\ \A t \in 1..MaxStarts :
          (t <= Len(threads) /\ endpoints[threads[t].srv] = "freed")
             ~> (t <= Len(threads) /\ threads[t].pc \in {"done", "fault"})

\* C20: no serve thread touches its grpc::Server after the object has been
\* released, whether the thread had yet to enter Wait() or was blocked in it.
C20_NoUseAfterRelease ==
    \A t \in 1..Len(threads) : threads[t].uaf = "none"

----------------------------------------------------------------------------
(* Ownership of the outputs (SpecHeap)                                     *)

\* the pointers a call handed to the caller, in the order of their mallocs:
\* the texts they point to ("array" for the result array), Null for none
ReturnedTexts ==
    CASE last.op = "hover_at" ->
            IF "markdown" \in last.frame.ptr THEN <<last.out.markdown>>
            ELSE <<>>
      [] last.op = "definition_at" ->
            IF "uri" \in last.frame.ptr /\ last.call.resp.found
            THEN <<last.out.uri>> ELSE <<>>
      [] last.op = "references_at" ->
            IF "locations" \in last.frame.ptr /\ last.out.locations.ptr = "heap"
            THEN <<"array">> \o [i \in 1..Len(last.out.locations.elems) |->
                                   last.out.locations.elems[i].uri]
            ELSE <<>>
      [] OTHER -> <<>>

\* C16: every string and array a successful call returns is a block of its
\* own: the blocks one call returns differ from each other and from every
\* block the caller held when it made the call, each non-null output has
\* its block and the blocks held before stay as they were; releasing one
\* block with free_string leaves every other block as it was.
C16_OwnAllocations ==
    /\ (IsCall /\ last.remote /\ last.rc = 0) =>
         LET made == last.mem.made
             texts == ReturnedTexts
         IN /\ \A i, j \in DOMAIN made :
                  (i # j /\ made[i] # 0) => made[i] # made[j]
            /\ \A i \in DOMAIN made :
                  made[i] # 0 => /\ last.mem.pre[made[i]] = "free"
                                 /\ last.mem.post[made[i]] # "free"
            /\ Len(texts) <= Len(made)
            /\ \A i \in DOMAIN texts :
                  /\ texts[i] # Null <=> made[i] # 0
                  /\ made[i] # 0 => heap[made[i]] = "held"
            /\ \A a \in Addrs : last.mem.pre[a] = "held" => heap[a] = "held"
    /\ (last.op = "free_string" /\ last.addr # 0) =>
         /\ last.pre[last.addr] = "held"
         /\ heap[last.addr] = "free"
         /\ \A a \in Addrs \ {last.addr} : heap[a] = last.pre[a]

\* references_at returned an array of two entries with their uris while the
\* caller held a string of an earlier call
C16_Witness ==
    /\ last.op = "references_at" /\ last.rc = 0
    /\ last.frame.ptr = ReferencesOuts
    /\ \E a \in Addrs : last.mem.pre[a] = "held"
    /\ Len(last.mem.made) = 3
    /\ \A i \in 1..3 : last.mem.made[i] # 0
    /\ Cardinality({a \in Addrs : heap[a] = "held"}) = 4

----------------------------------------------------------------------------
(* Outputs of the calls at return (SpecHeap, SpecClient)                   *)

\* C21: no call leaks: every block a call's mallocs handed out is, when the
\* call returns, reachable by the caller through an output or released,
\* whichever output pointers the caller supplied.
C21_NoLeak ==
    IsCall =>
       \A i \in DOMAIN last.mem.made :
          last.mem.made[i] # 0 => last.mem.post[last.mem.made[i]] # "lost"

\* C22: when hover_at, definition_at or references_at returns non-zero,
\* every output the caller supplied holds null (markdown, uri, locations),
\* false (found) or 0 (count); when references_at returns 0 with both
\* outputs supplied, count is 0 exactly when the array is null.
C22_FailedCallOwnsNothing ==
    /\ (last.op = "hover_at" /\ last.rc # 0) =>
          /\ last.rc \in {1, 2, 3, 5}
          /\ "markdown" \in last.frame.ptr => last.out.markdown = Null
    /\ (last.op = "definition_at" /\ last.rc # 0) =>
          /\ last.rc \in {1, 2, 3, 5}
          /\ "uri" \in last.frame.ptr => last.out.uri = Null
          /\ "found" \in last.frame.ptr => last.out.found = FALSE
    /\ (last.op = "references_at" /\ last.rc # 0) =>
          /\ last.rc \in {1, 2, 3, 4, 5}
          /\ "locations" \in last.frame.ptr => last.out.locations = NullArray
          /\ "count" \in last.frame.ptr => last.out.count = 0
    /\ (IsCall /\ last.op # "doc_update" /\ last.rc # 0) =>
          \A a \in Addrs : last.mem.post[a] # "held" \/ last.mem.pre[a] = "held"
    /\ (last.op = "references_at" /\ last.rc = 0
           /\ last.frame.ptr = ReferencesOuts) =>
          (last.out.count = 0 <=> last.out.locations = NullArray)

\* references_at could not allocate the result array: 3, and the caller's
\* stale variables come back null and 0
C22_Witness ==
    /\ last.op = "references_at" /\ last.rc = 3 /\ last.remote
    /\ last.call.status = "OK" /\ Len(last.call.resp.locations) = 2
    /\ last.frame.ptr = ReferencesOuts
    /\ last.frame.pre = [locations |-> StaleArray, count |-> 9]
    /\ last.out = [locations |-> NullArray, count |-> 0]

\* C23: when the references handler streams one or more locations to the
\* sink and then returns non-zero, the server sends none of them and
\* references_at returns non-zero with count 0 and a null array.
C23_FailedStreamDiscarded ==
    (last.op = "references_at" /\ last.remote /\ last.call.dispatched
        /\ last.call.handler /\ last.call.hb.rc # 0
        /\ Len(last.call.hb.stream) >= 1) =>
       /\ last.call.sent = ReferencesAtResponse
       /\ last.call.resp = ReferencesAtResponse
       /\ last.rc # 0
       /\ "locations" \in last.frame.ptr => last.out.locations = NullArray
       /\ "count" \in last.frame.ptr => last.out.count = 0
       /\ last.mem.made = <<>>

\* the handler streamed two locations and returned non-zero, in time
C23_Witness ==
    /\ last.op = "references_at" /\ last.remote /\ last.call.handler
    /\ last.call.hb.rc # 0 /\ Len(last.call.hb.stream) = 2
    /\ last.call.latency <= last.call.deadline_ms
    /\ last.frame.ptr = ReferencesOuts
    /\ last.rc = 2 /\ last.out = [locations |-> NullArray, count |-> 0]

\* C24: on a call that returns 0 the markdown output, the uri output of a
\* found definition and the uri of each location are null exactly when the
\* handler supplied a null pointer or an empty string, and hold the
\* handler's text otherwise.
C24_EmptyTextIsAbsence ==
    (IsCall /\ last.remote /\ last.rc = 0) =>
       /\ (last.op = "hover_at" /\ "markdown" \in last.frame.ptr) =>
             last.out.markdown = UriOf(last.call.hb.md)
       /\ (last.op = "definition_at" /\ last.call.hb.found
              /\ "uri" \in last.frame.ptr) =>
             last.out.uri = UriOf(last.call.hb.loc.uri)
       /\ (last.op = "references_at" /\ "locations" \in last.frame.ptr) =>
             /\ Len(last.out.locations.elems) = Len(last.call.hb.stream)
             /\ \A i \in 1..Len(last.call.hb.stream) :
                   last.out.locations.elems[i].uri
                      = UriOf(last.call.hb.stream[i].uri)

====
